---- MODULE Spec2Model ----
(***************************************************************************)
(* Plugin sequencing of GeekCMS: SequenceParser (analyze,                  *)
(* generate_sequence) and _Algorithm of geekcms/sequence_analyze.py.       *)
(*                                                                         *)
(* A text is a sequence of physical lines.  An operand is the sequence of  *)
(* the '.'-separated parts of its string, so that str.split('.') is the    *)
(* operand itself and len() of it is Len; an omitted operand is <<>>.      *)
(***************************************************************************)
EXTENDS Integers, Sequences, FiniteSets, TLC

\* ------------------------------------------------------------------ bounds
\* Total number of lines handed to analyze during one run.
MaxExprs == 2

Themes == {"t1", "t2"}
Names == {"a", "b", "c"}
Degrees == {0, 1}

\* ------------------------------------------------- PluginExpr / PluginRel
HEAD == "HEAD"
TAIL == "TAIL"
SPECIAL_DEGREE == -1

PluginRel(is_left_rel, degree) ==
    [present |-> TRUE, is_left_rel |-> is_left_rel, degree |-> degree]

\* expr.relation is None
NoneRel == [present |-> FALSE, is_left_rel |-> TRUE, degree |-> 0]

\* PluginExpr(left_operand=..., right_operand=..., relation=...): a missing
\* operand is replaced by the sentinel.
PluginExpr(left_operand, right_operand, relation) ==
    [left_operand |-> IF left_operand = <<>> THEN <<HEAD>> ELSE left_operand,
     right_operand |-> IF right_operand = <<>> THEN <<TAIL>> ELSE right_operand,
     relation |-> relation]

PluginIndex(theme_name, plugin_name) ==
    [theme_name |-> theme_name, plugin_name |-> plugin_name]

HeadIndex == PluginIndex("None", HEAD)
TailIndex == PluginIndex("None", TAIL)
Sentinels == {HeadIndex, TailIndex}

\* ------------------------------------------------------------ input lines
ExprLine(l, rel, r) == [kind |-> "expr", left |-> l, rel |-> rel, right |-> r]
Forward(l, d, r) == ExprLine(l, PluginRel(TRUE, d), r)
Reverse(l, d, r) == ExprLine(l, PluginRel(FALSE, d), r)
\* a line holding an illegal character, a line the grammar rejects
LexErrorLine == [kind |-> "lex"]
YaccErrorLine == [kind |-> "yacc"]

\* The lines a text of theme t1 is made of.
LinesT1 ==
    \* plugin_name relation plugin_name
    {Forward(<<p[1]>>, 0, <<p[2]>>) : p \in {q \in Names \X Names : q[1] # q[2]}}
    \cup {Forward(<<"c">>, 1, <<"b">>), Forward(<<"a">>, 1, <<"c">>),
          Forward(<<"a">>, 0, <<"a">>), Reverse(<<"b">>, 0, <<"a">>),
          Forward(<<"t1", "x", "a">>, 0, <<"b">>)}
    \* plugin_name relation
    \cup {Forward(<<"a">>, 0, <<>>), Forward(<<"b">>, 1, <<>>)}
    \* relation plugin_name
    \cup {Reverse(<<>>, 0, <<"c">>)}
    \* plugin_name
    \cup {ExprLine(<<"a">>, NoneRel, <<>>), ExprLine(<<"c">>, NoneRel, <<>>)}
    \cup {LexErrorLine, YaccErrorLine}

\* The lines a text of theme t2 is made of.
LinesT2 ==
    {Forward(<<"t1", "a">>, 0, <<"b">>), Forward(<<"a">>, 0, <<"t1", "b">>),
     Forward(<<"a">>, 0, <<"b">>), ExprLine(<<"a">>, NoneRel, <<>>),
     LexErrorLine}

LinesOf(theme) == IF theme = "t1" THEN LinesT1 ELSE LinesT2

RECURSIVE TextsOfLen(_, _)
TextsOfLen(lines, n) ==
    IF n = 0 THEN {<<>>}
    ELSE {Append(t, l) : t \in TextsOfLen(lines, n - 1), l \in lines}

\* the texts of each theme, by number of lines
Texts ==
    [theme \in Themes |-> [k \in 0..MaxExprs |-> TextsOfLen(LinesOf(theme), k)]]

\* ---------------------------------------------------------------- helpers
Range(s) == {s[i] : i \in 1..Len(s)}

RECURSIVE SelectSeqBy(_, _)
\* the subsequence of s at the positions in keep
SelectSeqBy(s, keep) ==
    IF s = <<>> THEN <<>>
    ELSE LET rest == SelectSeqBy(Tail(s), {i - 1 : i \in keep \ {1}})
         IN IF 1 \in keep THEN <<Head(s)>> \o rest ELSE rest

RECURSIVE Flatten(_)
Flatten(ss) == IF ss = <<>> THEN <<>> ELSE Head(ss) \o Flatten(Tail(ss))

\* every sequence that lists the members of S once each
Orderings(S) ==
    {p \in [1..Cardinality(S) -> S] : \A x \in S : \E i \in DOMAIN p : p[i] = x}

\* ------------------------------------------------------------- the parser
\* parser.parse(text): one PluginExpr per line the grammar accepts, operands
\* still raw; lines in error yield no expression.
RECURSIVE Parse(_)
Parse(text) ==
    IF text = <<>> THEN <<>>
    ELSE LET l == Head(text)
         IN (IF l.kind = "expr"
             THEN <<PluginExpr(l.left, l.right, l.rel)>>
             ELSE <<>>) \o Parse(Tail(text))

HasLexError(text) == \E i \in 1..Len(text) : text[i].kind = "lex"
HasYaccError(text) == \E i \in 1..Len(text) : text[i].kind = "yacc"

\* What a text holds, read off its lines: the expression lines, those with an
\* operand of more than one dot, those naming another theme.
ExprLinesOf(text) == SelectSeq(text, LAMBDA l : l.kind = "expr")
ManyDots(l) == Len(l.left) > 2 \/ Len(l.right) > 2
NamesTheme(l, theme) ==
    \/ Len(l.left) = 2 /\ l.left[1] # theme
    \/ Len(l.right) = 2 /\ l.right[1] # theme

\* ------------------------------------------- SequenceParser, qualification
IsSentinelOperand(operand) == operand = <<HEAD>> \/ operand = <<TAIL>>

\* the operand error raised one part too late
OperandErrorOffByOne(operand) == ~IsSentinelOperand(operand) /\ Len(operand) > 3

\* get_theme_plugin raises SyntaxError('Operand Error')
OperandError(operand) == ~IsSentinelOperand(operand) /\ Len(operand) > 2

get_theme_plugin(theme, operand) ==
    IF IsSentinelOperand(operand) THEN PluginIndex("None", operand[1])
    ELSE IF Len(operand) = 1 THEN PluginIndex(theme, operand[1])
    ELSE PluginIndex(operand[1], operand[2])

ExprOperandError(expr) ==
    OperandError(expr.left_operand) \/ OperandError(expr.right_operand)

ReplaceRaises(plugin_exprs) ==
    \E i \in 1..Len(plugin_exprs) : ExprOperandError(plugin_exprs[i])

replace_with_plugin_index(theme, plugin_exprs) ==
    [i \in 1..Len(plugin_exprs) |->
        [left_operand |-> get_theme_plugin(theme, plugin_exprs[i].left_operand),
         right_operand |-> get_theme_plugin(theme, plugin_exprs[i].right_operand),
         relation |-> plugin_exprs[i].relation]]

\* -------------------------------------------------------------- _Algorithm
\* hash() of a PluginIndex: a function of its value, injective on the
\* identities used here, in no relation to their lexicographic order.  It
\* decides only the order in which the relation groups are yielded.
ThemeCode(t) == CASE t = "None" -> 0 [] t = "t1" -> 1 [] t = "t2" -> 2 [] OTHER -> 3
NameCode(n) ==
    CASE n = HEAD -> 0 [] n = TAIL -> 1 [] n = "a" -> 2 [] n = "b" -> 3
      [] n = "c" -> 4 [] OTHER -> 5
IndexCode(index) == ThemeCode(index.theme_name) * 6 + NameCode(index.plugin_name)
Hash(index) == (IndexCode(index) * 7) % 25

\* _Algorithm.__init__
AlgorithmInit(containers) == Flatten(containers)

\* _remove_irrelevant_exprs: the expressions removed, and the ones left
IrrelevantExprs(es) == SelectSeq(es, LAMBDA e : ~e.relation.present)
RelevantExprs(es) == SelectSeq(es, LAMBDA e : e.relation.present)

\* the operand exchange without `relation.is_left_rel = True`
TransformExprNoMark(expr) ==
    IF expr.relation.is_left_rel THEN expr
    ELSE [left_operand |-> expr.right_operand,
          right_operand |-> expr.left_operand,
          relation |-> expr.relation]

\* one iteration of _transform_to_left_rel
TransformExpr(expr) ==
    IF expr.relation.is_left_rel THEN expr
    ELSE [left_operand |-> expr.right_operand,
          right_operand |-> expr.left_operand,
          relation |-> [expr.relation EXCEPT !.is_left_rel = TRUE]]

transform_to_left_rel(es) == [i \in 1..Len(es) |-> TransformExpr(es[i])]

\* tuple comparison of the sort keys (hash(operand), degree)
CmpKey(expr, op_name) == <<Hash(expr[op_name]), expr.relation.degree>>
KeyLess(k1, k2) == k1[1] < k2[1] \/ (k1[1] = k2[1] /\ k1[2] < k2[2])

\* sorted(exprs, key=..., reverse=...): stable in both directions
RECURSIVE InsertSorted(_, _, _, _)
InsertSorted(e, sorted, op_name, reverse) ==
    IF sorted = <<>> THEN <<e>>
    ELSE LET ke == CmpKey(e, op_name)
             kh == CmpKey(Head(sorted), op_name)
             before == IF reverse THEN KeyLess(kh, ke) ELSE KeyLess(ke, kh)
         IN IF before THEN <<e>> \o sorted
            ELSE <<Head(sorted)>> \o
                 InsertSorted(e, Tail(sorted), op_name, reverse)

RECURSIVE SortedExprsFrom(_, _, _, _)
SortedExprsFrom(es, acc, op_name, reverse) ==
    IF es = <<>> THEN acc
    ELSE SortedExprsFrom(Tail(es),
                         InsertSorted(Head(es), acc, op_name, reverse),
                         op_name, reverse)

SortedExprs(es, op_name, reverse) ==
    SortedExprsFrom(es, <<>>, op_name, reverse)

\* the length of the leading run of sorted_exprs whose op_name equals val
RECURSIVE RunLength(_, _, _)
RunLength(sorted_exprs, op_name, val) ==
    IF sorted_exprs = <<>> \/ Head(sorted_exprs)[op_name] # val THEN 0
    ELSE 1 + RunLength(Tail(sorted_exprs), op_name, val)

RECURSIVE yield_group(_, _)
yield_group(sorted_exprs, op_name) ==
    IF sorted_exprs = <<>> THEN <<>>
    ELSE LET n == RunLength(sorted_exprs, op_name, Head(sorted_exprs)[op_name])
         IN <<SubSeq(sorted_exprs, 1, n)>> \o
            yield_group(SubSeq(sorted_exprs, n + 1, Len(sorted_exprs)), op_name)

generate_left_relation_group(es) ==
    yield_group(SortedExprs(es, "left_operand", FALSE), "left_operand")

\* the sort of the right groups without reverse=True
generate_right_relation_group_ascending(es) ==
    yield_group(SortedExprs(es, "right_operand", FALSE), "right_operand")

generate_right_relation_group(es) ==
    yield_group(SortedExprs(es, "right_operand", TRUE), "right_operand")

special_rel == PluginRel(TRUE, SPECIAL_DEGREE)

Edge(l, r) == [left_operand |-> l, right_operand |-> r, relation |-> special_rel]

\* the chain alone, the expression at special_index left out
break_relation_group_chain_only(relation_group, op_name, special_index) ==
    [i \in 1..(Len(relation_group) - 1) |->
        [left_operand |-> relation_group[i][op_name],
         right_operand |-> relation_group[i + 1][op_name],
         relation |-> PluginRel(TRUE, SPECIAL_DEGREE)]]

\* op_name is the operand NOT gathered; special_index is 0 or -1
break_relation_group(relation_group, op_name, special_index) ==
    LET chain == [i \in 1..(Len(relation_group) - 1) |->
                    Edge(relation_group[i][op_name], relation_group[i + 1][op_name])]
        special_expr == IF special_index = 0 THEN relation_group[1]
                        ELSE relation_group[Len(relation_group)]
        new_expr == Edge(special_expr.left_operand, special_expr.right_operand)
    IN IF special_index = 0 THEN <<new_expr>> \o chain ELSE Append(chain, new_expr)

break_left_relation_group(relation_group) ==
    break_relation_group(relation_group, "right_operand", 0)

break_right_relation_group(relation_group) ==
    break_relation_group(relation_group, "left_operand", -1)

\* new_relations of _Algorithm.generate_sequence
NewRelations(es) ==
    LET lg == generate_left_relation_group(es)
        rg == generate_right_relation_group(es)
    IN Flatten([i \in 1..Len(lg) |-> break_left_relation_group(lg[i])])
       \o Flatten([i \in 1..Len(rg) |-> break_right_relation_group(rg[i])])

\* the dictionaries built at the head of _generate_execution_order
LeftHandSide(rels) ==
    [k \in {rels[i].left_operand : i \in 1..Len(rels)} |->
        LET idx == {i \in 1..Len(rels) : rels[i].left_operand = k}
        IN [j \in 1..Len(SelectSeqBy(rels, idx)) |->
                SelectSeqBy(rels, idx)[j].right_operand]]

RightHandSide(rels) ==
    [k \in {rels[i].right_operand : i \in 1..Len(rels)} |->
        Cardinality({i \in 1..Len(rels) : rels[i].right_operand = k})]

LeftBehind(rels, irrelevant) ==
    {irrelevant[i].left_operand : i \in 1..Len(irrelevant)}
    \cup ((DOMAIN RightHandSide(rels)) \ (DOMAIN LeftHandSide(rels)))

RECURSIVE DecrementNoDelete(_, _)
\* the inner for loop without its `del right_hand_side[right_op]`
DecrementNoDelete(rhs, right_ops) ==
    IF right_ops = <<>> THEN rhs
    ELSE DecrementNoDelete([rhs EXCEPT ![Head(right_ops)] = @ - 1], Tail(right_ops))

\* the inner for loop of the elimination: one decrement per listed successor
RECURSIVE Decrement(_, _)
Decrement(rhs, right_ops) ==
    IF right_ops = <<>> THEN rhs
    ELSE LET r == Head(right_ops)
             dec == IF rhs[r] = 1
                    THEN [k \in (DOMAIN rhs) \ {r} |-> rhs[k]]
                    ELSE [rhs EXCEPT ![r] = @ - 1]
         IN Decrement(dec, Tail(right_ops))

\* unique_items without the subtraction of the right hand side
UniqueItemsAllLeft(lhs, rhs) == DOMAIN lhs

\* unique_items of the while loop
UniqueItems(lhs, rhs) == (DOMAIN lhs) \ (DOMAIN rhs)

\* remove HEAD and TAIL
StripSentinels(ord) == SelectSeq(ord, LAMBDA x : x \notin Sentinels)

\* ------------------------------------------------------------------ state
VARIABLES
    theme_plugin_expr_mapping,  \* SequenceParser: dict, in insertion order
    error,                      \* SequenceParser.error
    lex_error, yacc_error,      \* ErrorCollector flags read by _archive_error
    theme_lex_error,            \* ErrorCollector: themes with archived lexical messages
    theme_yacc_error,           \* ErrorCollector: themes with archived syntax messages
    submitted,                  \* lines handed to analyze so far
    last_analyze,               \* summary of the latest analyze call
    repeated,                   \* generate_sequence was called again with no
                                \* analyze since the call before
    pc,                         \* "idle", or where the latest generate_sequence is
    exprs,                      \* _Algorithm._exprs
    irrelevant_exprs,
    relations,                  \* new_relations
    left_hand_side, right_hand_side, left_behind,
    order                       \* order; the returned list once pc = "returned"

parser_vars == <<theme_plugin_expr_mapping, error, lex_error, yacc_error,
                 theme_lex_error, theme_yacc_error, submitted, last_analyze>>
algorithm_vars == <<exprs, irrelevant_exprs, relations, left_hand_side,
                    right_hand_side, left_behind, order>>
vars == <<parser_vars, repeated, pc, algorithm_vars>>

EmptyDict == [k \in {} |-> 0]

NoAnalyze ==
    [theme |-> "None", outcome |-> "none", parsed |-> 0, wellformed |-> 0,
     lexical |-> FALSE, syntax |-> FALSE, malformed |-> FALSE, crossref |-> FALSE]

Init ==
    /\ theme_plugin_expr_mapping = <<>>
    /\ error = FALSE
    /\ lex_error = FALSE
    /\ yacc_error = FALSE
    /\ theme_lex_error = {}
    /\ theme_yacc_error = {}
    /\ submitted = 0
    /\ last_analyze = NoAnalyze
    /\ repeated = FALSE
    /\ pc = "idle"
    /\ exprs = <<>>
    /\ irrelevant_exprs = <<>>
    /\ relations = <<>>
    /\ left_hand_side = EmptyDict
    /\ right_hand_side = EmptyDict
    /\ left_behind = {}
    /\ order = <<>>

\* no _Algorithm instance is alive
AlgorithmGone ==
    /\ pc' = "idle"
    /\ exprs' = <<>>
    /\ irrelevant_exprs' = <<>>
    /\ relations' = <<>>
    /\ left_hand_side' = EmptyDict
    /\ right_hand_side' = EmptyDict
    /\ left_behind' = {}
    /\ order' = <<>>

\* dict[theme] = processed_exprs
DictStore(mapping, theme, processed_exprs) ==
    IF \E i \in 1..Len(mapping) : mapping[i].theme = theme
    THEN [i \in 1..Len(mapping) |->
            IF mapping[i].theme = theme
            THEN [theme |-> theme, exprs |-> processed_exprs]
            ELSE mapping[i]]
    ELSE Append(mapping, [theme |-> theme, exprs |-> processed_exprs])

\* dict.values()
DictValues(mapping) == [i \in 1..Len(mapping) |-> mapping[i].exprs]

DictHas(mapping, theme) == \E i \in 1..Len(mapping) : mapping[i].theme = theme
DictGet(mapping, theme) ==
    mapping[CHOOSE i \in 1..Len(mapping) : mapping[i].theme = theme].exprs

\* _archive_error names `theme`, which is not bound in its scope
ArchiveRaises(lex, yacc) == lex \/ yacc

\* SequenceParser.analyze(theme, text)
Analyze(theme, text) ==
    LET parsed == Parse(text)
        lex == lex_error \/ HasLexError(text)
        yacc == yacc_error \/ HasYaccError(text)
        outcome == IF ArchiveRaises(lex, yacc) THEN "NameError"
                   ELSE IF ReplaceRaises(parsed) THEN "SyntaxError"
                   ELSE "returned"
    IN /\ pc # "loop"
       /\ submitted + Len(text) <= MaxExprs
       /\ submitted' = submitted + Len(text)
       /\ lex_error' = lex
       /\ yacc_error' = yacc
       /\ error' = (error \/ lex \/ yacc)
       /\ UNCHANGED <<theme_lex_error, theme_yacc_error>>
       /\ theme_plugin_expr_mapping' =
            IF outcome = "returned"
            THEN DictStore(theme_plugin_expr_mapping, theme,
                           replace_with_plugin_index(theme, parsed))
            ELSE theme_plugin_expr_mapping
       /\ last_analyze' =
            [theme |-> theme, outcome |-> outcome, parsed |-> Len(parsed),
             wellformed |-> Len(SelectSeq(ExprLinesOf(text), LAMBDA l : ~ManyDots(l))),
             lexical |-> HasLexError(text), syntax |-> HasYaccError(text),
             malformed |-> \E i \in 1..Len(text) :
                            text[i].kind = "expr" /\ ManyDots(text[i]),
             crossref |-> \E i \in 1..Len(text) :
                            text[i].kind = "expr" /\ NamesTheme(text[i], theme)]
       /\ repeated' = FALSE
       /\ AlgorithmGone

\* SequenceParser.generate_sequence up to the while loop of
\* _generate_execution_order
GenerateSequence ==
    LET all == AlgorithmInit(DictValues(theme_plugin_expr_mapping))
        irrelevant == IrrelevantExprs(all)
        working == transform_to_left_rel(RelevantExprs(all))
        new_relations == NewRelations(working)
    IN /\ pc # "loop"
       /\ theme_plugin_expr_mapping' =
            [i \in 1..Len(theme_plugin_expr_mapping) |->
                [theme |-> theme_plugin_expr_mapping[i].theme,
                 exprs |->
                    LET es == theme_plugin_expr_mapping[i].exprs
                    IN [j \in 1..Len(es) |->
                            IF es[j].relation.present
                            THEN TransformExpr(es[j]) ELSE es[j]]]]
       /\ exprs' = working
       /\ irrelevant_exprs' = irrelevant
       /\ relations' = new_relations
       /\ order' = <<>>
       /\ left_hand_side' = LeftHandSide(new_relations)
       /\ right_hand_side' = RightHandSide(new_relations)
       /\ left_behind' = LeftBehind(new_relations, irrelevant)
       /\ pc' = "loop"
       /\ repeated' = (pc # "idle")
       /\ UNCHANGED <<error, lex_error, yacc_error, theme_lex_error,
                      theme_yacc_error, submitted, last_analyze>>

\* one iteration of `while left_hand_side`
LoopIteration ==
    /\ pc = "loop"
    /\ DOMAIN left_hand_side # {}
    /\ \E item \in UniqueItems(left_hand_side, right_hand_side) :
          /\ order' = Append(order, item)
          /\ right_hand_side' = Decrement(right_hand_side, left_hand_side[item])
          /\ left_hand_side' =
                [k \in (DOMAIN left_hand_side) \ {item} |-> left_hand_side[k]]
    /\ UNCHANGED <<parser_vars, repeated, pc, exprs, irrelevant_exprs,
                   relations, left_behind>>

\* raise SyntaxError("Something Wrong. ...")
LoopRaise ==
    /\ pc = "loop"
    /\ DOMAIN left_hand_side # {}
    /\ UniqueItems(left_hand_side, right_hand_side) = {}
    /\ pc' = "raised"
    /\ UNCHANGED <<parser_vars, repeated, algorithm_vars>>

\* order.extend(left_behind), removal of HEAD and TAIL, return
ReturnOrder ==
    /\ pc = "loop"
    /\ DOMAIN left_hand_side = {}
    /\ \E tail \in Orderings(left_behind) :
          order' = StripSentinels(order \o tail)
    /\ pc' = "returned"
    /\ UNCHANGED <<parser_vars, repeated, exprs, irrelevant_exprs, relations,
                   left_hand_side, right_hand_side, left_behind>>

Next ==
    \/ \E theme \in Themes : \E k \in 0..(MaxExprs - submitted) :
          \E text \in Texts[theme][k] : Analyze(theme, text)
    \/ GenerateSequence
    \/ LoopIteration
    \/ LoopRaise
    \/ ReturnOrder

Spec == Init /\ [][Next]_vars

\* ---------------------------------------------------------------- notions
\* first position of x in the sequence, 0 when x is not in it
Pos(ord, x) ==
    IF \E i \in 1..Len(ord) : ord[i] = x
    THEN CHOOSE i \in 1..Len(ord) : ord[i] = x /\ \A j \in 1..(i - 1) : ord[j] # x
    ELSE 0

Before(ord, x, y) == Pos(ord, x) > 0 /\ Pos(ord, y) > 0 /\ Pos(ord, x) < Pos(ord, y)

EdgesOf(es) == {<<es[i].left_operand, es[i].right_operand>> : i \in 1..Len(es)}

RECURSIVE Reach(_, _)
\* the identities reachable from those of S along edges E, S included
Reach(E, S) ==
    LET S2 == S \cup {e[2] : e \in {f \in E : f[1] \in S}}
    IN IF S2 = S THEN S ELSE Reach(E, S2)

HasCycle(E) == \E e \in E : e[1] \in Reach(E, {e[2]})

\* the identities the analyzed directives mention, sentinels left out
Mentioned ==
    ({exprs[i].left_operand : i \in 1..Len(exprs)}
     \cup {exprs[i].right_operand : i \in 1..Len(exprs)}
     \cup {irrelevant_exprs[i].left_operand : i \in 1..Len(irrelevant_exprs)})
    \ Sentinels

\* the value-based key of an identity: (theme, name) in lexicographic order
ValueKey(index) == IndexCode(index)

\* ----------------------------------------------------------------- claims
\* C1: a returned sequence holds exactly the identities the analyzed
\* directives mention, sentinels left out, each of them once.
C1_ExactlyTheMentionedOnce ==
    pc = "returned" =>
        /\ Range(order) = Mentioned
        /\ Len(order) = Cardinality(Range(order))

\* C2: in a returned sequence every directive x << y between two
\* non-sentinel identities has x (first occurrence) ahead of y.
C2_DirectivesSatisfied ==
    pc = "returned" =>
        \A i \in 1..Len(exprs) :
            (exprs[i].left_operand \notin Sentinels
             /\ exprs[i].right_operand \notin Sentinels)
            => Before(order, exprs[i].left_operand, exprs[i].right_operand)

C2_Witness ==
    /\ pc = "returned"
    /\ Len(theme_plugin_expr_mapping) = 2
    /\ \E i \in 1..Len(exprs) :
          /\ exprs[i].left_operand.theme_name = "t1"
          /\ exprs[i].right_operand.theme_name = "t2"
          /\ Before(order, exprs[i].left_operand, exprs[i].right_operand)

\* C3: when the merged edges of chain building hold a cycle (a self-edge
\* included), generate_sequence returns no sequence: the loop cannot end by
\* running out of predecessors, it can only raise.
C3_CycleNeverReturns ==
    HasCycle(EdgesOf(relations)) =>
        /\ pc # "returned"
        /\ (pc = "loop" => DOMAIN left_hand_side # {})

C3_Witness ==
    /\ pc = "raised"
    /\ <<PluginIndex("t1", "a"), PluginIndex("t1", "b")>> \in EdgesOf(relations)
    /\ <<PluginIndex("t1", "b"), PluginIndex("t1", "a")>> \in EdgesOf(relations)

\* C4 as stated: the ordering error is raised only when the directives
\* themselves (x precedes y over all directives) hold a cycle.
C4_RaisedOnlyOnDirectiveCycle ==
    pc = "raised" => HasCycle(EdgesOf(exprs))

\* C4 amended: the ordering error is raised only when the merged edges of
\* chain building hold a cycle, and every iteration of the elimination loop
\* removes exactly one predecessor from the pending set.
C4_RaisedOnlyOnMergedCycle ==
    /\ [](pc = "raised" => HasCycle(EdgesOf(relations)))
    /\ [][(pc = "loop" /\ pc' = "loop") =>
            Cardinality(DOMAIN left_hand_side') =
                Cardinality(DOMAIN left_hand_side) - 1]_vars

C4_Witness ==
    /\ pc = "returned"
    /\ Len(exprs) >= 2
    /\ Len(order) >= 3
    /\ ~HasCycle(EdgesOf(relations))

\* C5 as stated: at every step of the elimination loop the eligible identity
\* of the smallest value-based key is the one selected.
C5_SmallestKeySelected ==
    [][(pc = "loop" /\ pc' = "loop") =>
        \A x \in (DOMAIN left_hand_side) \ (DOMAIN right_hand_side) :
            ValueKey(order'[Len(order')]) <= ValueKey(x)]_vars

\* C5 amended: at every step of the elimination loop the identity selected
\* is one of the eligible ones, a pending predecessor with no pending
\* incoming edge; which of them is not fixed.
C5_SomeEligibleSelected ==
    [][(pc = "loop" /\ pc' = "loop") =>
        /\ order' = Append(order, order'[Len(order')])
        /\ order'[Len(order')] \in DOMAIN left_hand_side
        /\ order'[Len(order')] \notin DOMAIN right_hand_side]_vars

C5_Witness ==
    /\ pc = "loop"
    /\ Len(order) >= 1
    /\ \E x \in (DOMAIN left_hand_side) \ (DOMAIN right_hand_side) :
          /\ ValueKey(x) < ValueKey(order[Len(order)])
          /\ <<order[Len(order)], x>> \notin EdgesOf(relations)

\* C6: in a returned sequence, of two directives with one right operand the
\* left operand of the higher degree comes first, and of two directives
\* with one left operand the right operand of the lower degree comes first.
C6_DegreeOrdersGroup ==
    pc = "returned" =>
        \A i \in 1..Len(exprs), j \in 1..Len(exprs) :
            /\ (/\ exprs[i].right_operand = exprs[j].right_operand
                /\ exprs[i].relation.degree > exprs[j].relation.degree
                /\ exprs[i].left_operand \notin Sentinels
                /\ exprs[j].left_operand \notin Sentinels)
               => /\ Before(order, exprs[i].left_operand, exprs[j].left_operand)
                  /\ (exprs[i].right_operand \notin Sentinels
                      => Before(order, exprs[j].left_operand, exprs[i].right_operand))
            /\ (/\ exprs[i].left_operand = exprs[j].left_operand
                /\ exprs[i].relation.degree < exprs[j].relation.degree
                /\ exprs[i].right_operand \notin Sentinels
                /\ exprs[j].right_operand \notin Sentinels)
               => /\ Before(order, exprs[i].right_operand, exprs[j].right_operand)
                  /\ (exprs[i].left_operand \notin Sentinels
                      => Before(order, exprs[i].left_operand, exprs[i].right_operand))

\* loader_a <<0 loader_b, loader_c <<1 loader_b
C6_Witness ==
    /\ pc = "returned"
    /\ \E i \in 1..Len(exprs), j \in 1..Len(exprs) :
          /\ exprs[i].left_operand = PluginIndex("t1", "a")
          /\ exprs[i].right_operand = PluginIndex("t1", "b")
          /\ exprs[i].relation.degree = 0
          /\ exprs[j].left_operand = PluginIndex("t1", "c")
          /\ exprs[j].right_operand = PluginIndex("t1", "b")
          /\ exprs[j].relation.degree = 1
    /\ order = <<PluginIndex("t1", "c"), PluginIndex("t1", "a"),
                 PluginIndex("t1", "b")>>

\* C7: in a returned sequence the left operand of 'x <<' (x << TAIL, degree
\* 0) is ahead of every other item, those excepted that the directives
\* order before x.
C7_TailDirectiveGoesFirst ==
    pc = "returned" =>
        \A i \in 1..Len(exprs) :
            (/\ exprs[i].right_operand = TailIndex
             /\ exprs[i].relation.degree = 0
             /\ exprs[i].left_operand \notin Sentinels)
            => \A y \in Range(order) \ {exprs[i].left_operand} :
                  \/ Before(order, exprs[i].left_operand, y)
                  \/ exprs[i].left_operand \in Reach(EdgesOf(relations), {y})

\* C8 as stated: an expression with an operand of more than one dot is the
\* only one dropped; the other expressions of the text are stored.
C8_OnlyTheExpressionDropped ==
    (pc = "idle" /\ last_analyze.malformed /\ ~lex_error /\ ~yacc_error) =>
        /\ DictHas(theme_plugin_expr_mapping, last_analyze.theme)
        /\ Len(DictGet(theme_plugin_expr_mapping, last_analyze.theme))
                = last_analyze.wellformed

StoredOperands(mapping, theme) ==
    IF DictHas(mapping, theme)
    THEN {DictGet(mapping, theme)[i].left_operand :
                i \in 1..Len(DictGet(mapping, theme))}
         \cup {DictGet(mapping, theme)[i].right_operand :
                i \in 1..Len(DictGet(mapping, theme))}
    ELSE {}

\* C8 amended: a bare operand is qualified with the namespace of its text
\* and 'theme.plugin' denotes (theme, plugin) of another namespace; an
\* operand of more than one dot makes analyze raise (the operand error,
\* when _archive_error has not raised before it) and store nothing of that
\* text, the mapping staying as it was.
C8_OperandErrorStoresNothing ==
    [][pc' = "idle" =>
        /\ last_analyze'.malformed =>
              /\ last_analyze'.outcome # "returned"
              /\ (~lex_error' /\ ~yacc_error')
                    => last_analyze'.outcome = "SyntaxError"
              /\ theme_plugin_expr_mapping' = theme_plugin_expr_mapping
        /\ last_analyze'.outcome = "returned" =>
              /\ Len(DictGet(theme_plugin_expr_mapping', last_analyze'.theme))
                    = last_analyze'.parsed
              /\ last_analyze'.crossref <=>
                    \E x \in StoredOperands(theme_plugin_expr_mapping',
                                            last_analyze'.theme) :
                        x.theme_name \notin {last_analyze'.theme, "None"}]_vars

C8_Witness ==
    /\ pc = "idle"
    /\ last_analyze.outcome = "SyntaxError"
    /\ last_analyze.wellformed >= 1
    /\ last_analyze.theme = "t1"
    /\ ~DictHas(theme_plugin_expr_mapping, "t1")

\* C9: an analyze whose text holds a lexical or syntax error sets the flag,
\* archives the diagnostics under the namespace, stores the expressions of
\* the other lines and returns.
C9_ErrorDoesNotAbort ==
    (pc = "idle" /\ (last_analyze.lexical \/ last_analyze.syntax)
       /\ ~last_analyze.malformed) =>
        /\ error
        /\ last_analyze.lexical => last_analyze.theme \in theme_lex_error
        /\ last_analyze.syntax => last_analyze.theme \in theme_yacc_error
        /\ last_analyze.outcome = "returned"
        /\ DictHas(theme_plugin_expr_mapping, last_analyze.theme)
        /\ Len(DictGet(theme_plugin_expr_mapping, last_analyze.theme))
                = last_analyze.parsed

\* C10: a generate_sequence call made right after another one derives the
\* unconstrained set and the edge set the call before derived.
C10_Repeatable ==
    [][(pc # "idle" /\ pc # "loop" /\ pc' = "loop") =>
        /\ EdgesOf(relations') = EdgesOf(relations)
        /\ Range(irrelevant_exprs') = Range(irrelevant_exprs)]_vars

C10_Witness ==
    /\ repeated
    /\ pc = "returned"
    /\ \E i \in 1..Len(exprs) : exprs[i].right_operand = HeadIndex
    /\ Len(irrelevant_exprs) >= 1

====
